---------------------------- MODULE Spec2Model ----------------------------
(***************************************************************************)
(* The train / evaluate drivers of the two reinforcement-learning example  *)
(* programs:                                                               *)
(*   "dqn"   the lunar-lander program (src/unnamed/part_000)               *)
(*   "ddpg"  the mountain-car program (mountain_car_ddpg.cpp)              *)
(* Each statement of Train and of main's evaluation loops is one action;   *)
(* pc is the position of the single thread of control.  The agent, the     *)
(* replay buffer and the environment client are library objects: the model *)
(* keeps the fields the drivers read and write and draws what the          *)
(* libraries produce (rewards, done flags) from small sets.                 *)
(***************************************************************************)
EXTENDS Integers, Sequences, FiniteSets, TLC

(***************************************************************************)
(* Program constants, as main sets them.                                   *)
(***************************************************************************)
DqnExplorationSteps == 100
DqnConsecutiveEpisodes == 50
DqnNumSteps1 == 10000
DqnNumSteps2 == 100000
DdpgExplorationSteps == 3200
DdpgUpdateInterval == 1
DdpgConsecutiveEpisodes == 25
DdpgNumSteps == 10000
\* the discount 0.99 handed to Store, in hundredths
Discount == 99
\* the number of steps the mountain-car program's comment announces
DdpgAnnouncedSteps == 100000

(***************************************************************************)
(* Bounds of the model.  Beside the configuration main sets, every run is  *)
(* also explored under small configurations of the same shape, in which    *)
(* training ends after a few steps so that evaluation, the second Train    *)
(* call and the exit are reached.                                          *)
(***************************************************************************)
SmallExplorationSteps == 2
SmallUpdateInterval == 2
SmallConsecutiveEpisodes == 2
SmallNumSteps == 3
\* an episode of the environment reports done after at most this many steps
MaxEpisodeLen == 2
\* the replay buffer keeps its most recent transitions (first in, first out)
ReplayCapacity == 2

Programs == {"dqn", "ddpg"}
Rewards == {0, 1}

\* Under main's own configuration training is explored up to this total of
\* steps (a longest episode and the start of the next); the small
\* configurations are explored to the exit of main.
StepCap == MaxEpisodeLen + 1

MainConfig(p) ==
  IF p = "dqn"
    THEN [real |-> TRUE,
          explorationSteps |-> DqnExplorationSteps,
          updateInterval |-> 1,
          consecutiveEpisodes |-> DqnConsecutiveEpisodes,
          steps |-> <<DqnNumSteps1, DqnNumSteps2>>]
    ELSE [real |-> TRUE,
          explorationSteps |-> DdpgExplorationSteps,
          updateInterval |-> DdpgUpdateInterval,
          consecutiveEpisodes |-> DdpgConsecutiveEpisodes,
          steps |-> <<DdpgNumSteps>>]

SmallConfig(p, expl, consec) ==
  [real |-> FALSE,
   explorationSteps |-> expl,
   updateInterval |-> IF p = "dqn" THEN 1 ELSE SmallUpdateInterval,
   consecutiveEpisodes |-> consec,
   steps |-> IF p = "dqn" THEN <<SmallNumSteps, SmallNumSteps + 1>>
                          ELSE <<SmallNumSteps>>]

SmallConfigs(p) ==
  {SmallConfig(p, expl, consec) :
     expl \in {0, SmallExplorationSteps},
     consec \in 1..SmallConsecutiveEpisodes}

Configs(p) == {MainConfig(p)} \cup SmallConfigs(p)

\* number of Train calls (and of evaluation loops) in main
Calls(p) == IF p = "dqn" THEN 2 ELSE 1

(***************************************************************************)
(* The environment client.  observation, reward and done are the fields    *)
(* the drivers read.  Observations are opaque to the drivers: the model    *)
(* numbers them, so each reset or step of a connection yields an           *)
(* observation distinct from all earlier ones of that connection.  The     *)
(* other fields record the history of the connection: whether it was       *)
(* reset, the steps and the rewards since the last reset, the observation  *)
(* held before the last step and the one the last reset produced, and any  *)
(* call made out of order.                                                 *)
(***************************************************************************)
NoEnv ==
  [conn |-> "none", observation |-> 0, reward |-> 0, done |-> FALSE,
   ops |-> 0, resets |-> 0, needReset |-> TRUE, epSteps |-> 0,
   epReward |-> 0, before |-> 0, resetObs |-> 0, misuse |-> {}]

EnvOpen == [NoEnv EXCEPT !.conn = "open"]

EnvMisuseOnReset(e) ==
  IF e.conn # "open" THEN {"reset after close"} ELSE {}

EnvMisuseOnStep(e) ==
  (IF e.conn # "open" THEN {"step after close"} ELSE {})
  \cup (IF e.resets = 0 THEN {"step before reset"} ELSE {})
  \cup (IF e.resets > 0 /\ e.needReset THEN {"step after done"} ELSE {})

EnvReset(e) ==
  [e EXCEPT !.observation = e.ops + 1, !.ops = e.ops + 1,
            !.resets = e.resets + 1, !.needReset = FALSE,
            !.epSteps = 0, !.epReward = 0, !.resetObs = e.ops + 1,
            !.misuse = e.misuse \cup EnvMisuseOnReset(e)]

\* the done flags a step may report: an episode ends within MaxEpisodeLen steps
DoneChoices(e) == IF e.epSteps + 1 >= MaxEpisodeLen THEN {TRUE} ELSE BOOLEAN

EnvStep(e, r, d) ==
  [e EXCEPT !.observation = e.ops + 1, !.ops = e.ops + 1,
            !.reward = r, !.done = d, !.needReset = d,
            !.epSteps = e.epSteps + 1, !.epReward = e.epReward + r,
            !.before = e.observation,
            !.misuse = e.misuse \cup EnvMisuseOnStep(e)]

EnvClose(e) == [e EXCEPT !.conn = "closed"]

(***************************************************************************)
(* The replay buffer: Store appends, the oldest transition leaves when the *)
(* capacity is exceeded.                                                   *)
(***************************************************************************)
Transition(s, a, r, n, d, g) ==
  [state |-> s, action |-> a, reward |-> r, nextState |-> n, done |-> d,
   discount |-> g]

Store(buf, t) ==
  IF Len(buf) < ReplayCapacity THEN Append(buf, t)
                               ELSE Append(Tail(buf), t)

(***************************************************************************)
(* The agent.  The action a selection yields is opaque to the drivers: the *)
(* model numbers the selections, so each yields an action distinct from    *)
(* all earlier ones.                                                       *)
(***************************************************************************)
NewAgent ==
  [deterministic |-> FALSE, totalSteps |-> 0, state |-> 0, action |-> 0]

SelectAction(a) == [a EXCEPT !.action = a.action + 1]

RECURSIVE Sum(_)
Sum(s) == IF s = <<>> THEN 0 ELSE Head(s) + Sum(Tail(s))

Last(s) == s[Len(s)]

VARIABLES
  prog,            \* which of the two programs runs
  config,          \* TrainingConfig, consecutiveEpisodes and the step bounds
  pc,              \* position of the thread of control
  call,            \* which Train call / evaluation loop of main is running
  env,             \* the training environment connection
  envTest,         \* the evaluation environment connection
  agent,           \* Deterministic(), TotalSteps(), State(), Action()
  replayMethod,    \* the replay buffer
  returnList,      \* main's returnList, shared by all Train calls
  episodes,        \* main's episodes counter
  numSteps,        \* Train's parameter
  episodeReturn,   \* Train's local
  nextState,       \* Train's local
  i,               \* counter of the update loop (ddpg)
  averageReturn,   \* Train's local: the sum and the divisor of the average
  totalReward,     \* main's local
  totalSteps,      \* main's local
  iter,            \* history: events of the current iteration of a step loop
  hist             \* history: counters and the returns of all episodes

vars == <<prog, config, pc, call, env, envTest, agent, replayMethod, returnList,
          episodes, numSteps, episodeReturn, nextState, i, averageReturn,
          totalReward, totalSteps, iter, hist>>


Init ==
  /\ prog \in Programs
  /\ config \in Configs(prog)
  /\ pc = "main_train"
  /\ call = 1
  /\ env = EnvOpen
  /\ envTest = NoEnv
  /\ agent = NewAgent
  /\ replayMethod = <<>>
  /\ returnList = <<>>
  /\ episodes = 0
  /\ numSteps = 0
  /\ episodeReturn = 0
  /\ nextState = 0
  /\ i = 0
  /\ averageReturn = [sum |-> 0, size |-> 0]
  /\ totalReward = 0
  /\ totalSteps = 0
  /\ iter = <<>>
  /\ hist = [allReturns |-> <<>>, trainSteps |-> 0, epStores |-> 0,
             epResets |-> 0, callEpisodes |-> 0, callActs |-> 0,
             entrySteps |-> 0, entryReturns |-> <<>>, entryEpisodes |-> 0,
             appended |-> 0]

(***************************************************************************)
(* main: the calls of Train.                                               *)
(***************************************************************************)
\* the step bound main passes to its call-th Train call
TrainBound(c) == config.steps[c]

MainTrain ==
  /\ pc = "main_train"
  /\ numSteps' = TrainBound(call)
  /\ pc' = "train_begin"
  /\ hist' = [hist EXCEPT !.callEpisodes = 0, !.callActs = 0,
                          !.entrySteps = agent.totalSteps,
                          !.entryReturns = returnList,
                          !.entryEpisodes = episodes]
  /\ UNCHANGED <<prog, config, call, env, envTest, agent, replayMethod, returnList,
                 episodes, episodeReturn, nextState, i, averageReturn,
                 totalReward, totalSteps, iter>>

(***************************************************************************)
(* Train.                                                                  *)
(***************************************************************************)
\* variant: Train leaves the agent's mode as it finds it
TrainBeginKeepsMode ==
  /\ pc = "train_begin"
  /\ pc' = "train_while"
  /\ UNCHANGED <<prog, config, call, env, envTest, agent, replayMethod, returnList,
                 episodes, numSteps, episodeReturn, nextState, i,
                 averageReturn, totalReward, totalSteps, iter, hist>>

\* agent.Deterministic() = false;
TrainBegin ==
  /\ pc = "train_begin"
  /\ agent' = [agent EXCEPT !.deterministic = FALSE]
  /\ pc' = "train_while"
  /\ UNCHANGED <<prog, config, call, env, envTest, replayMethod, returnList, episodes,
                 numSteps, episodeReturn, nextState, i, averageReturn,
                 totalReward, totalSteps, iter, hist>>

\* variant: the bound is tested with <=
KeepTrainingInclusive == agent.totalSteps <= numSteps

\* while (agent.TotalSteps() < numSteps)
KeepTraining == agent.totalSteps < numSteps

TrainWhile ==
  /\ pc = "train_while"
  /\ pc' = IF KeepTraining THEN "train_zero" ELSE "main_det"
  /\ UNCHANGED <<prog, config, call, env, envTest, agent, replayMethod, returnList,
                 episodes, numSteps, episodeReturn, nextState, i,
                 averageReturn, totalReward, totalSteps, iter, hist>>

\* variant: the accumulator is not cleared when an episode begins
TrainZeroKeeps ==
  /\ pc = "train_zero"
  /\ pc' = "train_reset"
  /\ hist' = [hist EXCEPT !.epResets = 0, !.epStores = 0]
  /\ UNCHANGED <<prog, config, call, env, envTest, agent, replayMethod, returnList,
                 episodes, numSteps, episodeReturn, nextState, i,
                 averageReturn, totalReward, totalSteps, iter>>

\* double episodeReturn = 0;
TrainZero ==
  /\ pc = "train_zero"
  /\ episodeReturn' = 0
  /\ pc' = "train_reset"
  /\ hist' = [hist EXCEPT !.epResets = 0, !.epStores = 0]
  /\ UNCHANGED <<prog, config, call, env, envTest, agent, replayMethod, returnList,
                 episodes, numSteps, nextState, i, averageReturn,
                 totalReward, totalSteps, iter>>

\* env.reset();
TrainReset ==
  /\ pc = "train_reset"
  /\ env' = EnvReset(env)
  /\ pc' = "train_observe"
  /\ hist' = [hist EXCEPT !.epResets = @ + 1, !.callActs = @ + 1]
  /\ UNCHANGED <<prog, config, call, envTest, agent, replayMethod, returnList,
                 episodes, numSteps, episodeReturn, nextState, i,
                 averageReturn, totalReward, totalSteps, iter>>

\* agent.State().Data() = env.observation;
TrainObserve ==
  /\ pc = "train_observe"
  /\ agent' = [agent EXCEPT !.state = env.observation]
  /\ iter' = <<"observe">>
  /\ pc' = "train_select"
  /\ UNCHANGED <<prog, config, call, env, envTest, replayMethod, returnList, episodes,
                 numSteps, episodeReturn, nextState, i, averageReturn,
                 totalReward, totalSteps, hist>>

\* agent.SelectAction();
TrainSelect ==
  /\ pc = "train_select"
  /\ agent' = SelectAction(agent)
  /\ iter' = Append(iter, "select")
  /\ pc' = "train_step"
  /\ UNCHANGED <<prog, config, call, env, envTest, replayMethod, returnList, episodes,
                 numSteps, episodeReturn, nextState, i, averageReturn,
                 totalReward, totalSteps, hist>>

\* env.step(action);
TrainStep ==
  /\ pc = "train_step"
  /\ config.real => agent.totalSteps < StepCap
  /\ \E r \in Rewards, d \in DoneChoices(env) : env' = EnvStep(env, r, d)
  /\ iter' = Append(iter, "step")
  /\ pc' = "train_next"
  /\ hist' = [hist EXCEPT !.trainSteps = @ + 1, !.callActs = @ + 1]
  /\ UNCHANGED <<prog, config, call, envTest, agent, replayMethod, returnList,
                 episodes, numSteps, episodeReturn, nextState, i,
                 averageReturn, totalReward, totalSteps>>

\* nextState.Data() = env.observation;
TrainNext ==
  /\ pc = "train_next"
  /\ nextState' = env.observation
  /\ pc' = "train_store"
  /\ UNCHANGED <<prog, config, call, env, envTest, agent, replayMethod, returnList,
                 episodes, numSteps, episodeReturn, i, averageReturn,
                 totalReward, totalSteps, iter, hist>>

\* variant: the agent's state is stored as the next state too
StoredTransitionStale ==
  Transition(agent.state, agent.action, env.reward, agent.state, env.done,
             Discount)

\* replayMethod.Store(agent.State(), agent.Action(), env.reward, nextState,
\*                    env.done, 0.99);
StoredTransition ==
  Transition(agent.state, agent.action, env.reward, nextState, env.done,
             Discount)

TrainStore ==
  /\ pc = "train_store"
  /\ replayMethod' = Store(replayMethod, StoredTransition)
  /\ iter' = Append(iter, "store")
  /\ pc' = "train_accum"
  /\ hist' = [hist EXCEPT !.epStores = @ + 1, !.callActs = @ + 1]
  /\ UNCHANGED <<prog, config, call, env, envTest, agent, returnList, episodes,
                 numSteps, episodeReturn, nextState, i, averageReturn,
                 totalReward, totalSteps>>

\* episodeReturn += env.reward;
TrainAccum ==
  /\ pc = "train_accum"
  /\ episodeReturn' = episodeReturn + env.reward
  /\ iter' = Append(iter, "accumulate")
  /\ pc' = "train_count"
  /\ UNCHANGED <<prog, config, call, env, envTest, agent, replayMethod, returnList,
                 episodes, numSteps, nextState, i, averageReturn,
                 totalReward, totalSteps, hist>>

\* agent.TotalSteps()++;
TrainCount ==
  /\ pc = "train_count"
  /\ agent' = [agent EXCEPT !.totalSteps = @ + 1]
  /\ pc' = "train_skip"
  /\ UNCHANGED <<prog, config, call, env, envTest, replayMethod, returnList, episodes,
                 numSteps, episodeReturn, nextState, i, averageReturn,
                 totalReward, totalSteps, iter, hist>>

\* variant: the exploration bound is tested with <=
SkipUpdateInclusive ==
  agent.deterministic \/ agent.totalSteps <= config.explorationSteps

\* if (agent.Deterministic() || agent.TotalSteps() < config.ExplorationSteps())
\*   continue;
SkipUpdate ==
  agent.deterministic \/ agent.totalSteps < config.explorationSteps

TrainSkip ==
  /\ pc = "train_skip"
  /\ i' = 0
  /\ pc' = IF SkipUpdate THEN "train_cond"
           ELSE IF prog = "dqn" THEN "train_agent" ELSE "train_for"
  /\ UNCHANGED <<prog, config, call, env, envTest, agent, replayMethod, returnList,
                 episodes, numSteps, episodeReturn, nextState, averageReturn,
                 totalReward, totalSteps, iter, hist>>

\* agent.TrainAgent();                                              (dqn)
TrainAgent ==
  /\ pc = "train_agent"
  /\ iter' = Append(iter, "update")
  /\ pc' = "train_cond"
  /\ hist' = [hist EXCEPT !.callActs = @ + 1]
  /\ UNCHANGED <<prog, config, call, env, envTest, agent, replayMethod, returnList,
                 episodes, numSteps, episodeReturn, nextState, i,
                 averageReturn, totalReward, totalSteps>>

\* for (size_t i = 0; i < config.UpdateInterval(); i++)            (ddpg)
MoreUpdates == i < config.updateInterval

TrainFor ==
  /\ pc = "train_for"
  /\ pc' = IF MoreUpdates THEN "train_update" ELSE "train_cond"
  /\ UNCHANGED <<prog, config, call, env, envTest, agent, replayMethod, returnList,
                 episodes, numSteps, episodeReturn, nextState, i,
                 averageReturn, totalReward, totalSteps, iter, hist>>

\*   agent.Update();  i++                                           (ddpg)
TrainUpdate ==
  /\ pc = "train_update"
  /\ iter' = Append(iter, "update")
  /\ i' = i + 1
  /\ pc' = "train_for"
  /\ hist' = [hist EXCEPT !.callActs = @ + 1]
  /\ UNCHANGED <<prog, config, call, env, envTest, agent, replayMethod, returnList,
                 episodes, numSteps, episodeReturn, nextState, averageReturn,
                 totalReward, totalSteps>>

\* variant: the loop goes back to the reset of the environment
TrainCondResets ==
  /\ pc = "train_cond"
  /\ pc' = IF ~env.done THEN "train_reset" ELSE "train_push"
  /\ iter' = <<>>
  /\ UNCHANGED <<prog, config, call, env, envTest, agent, replayMethod, returnList,
                 episodes, numSteps, episodeReturn, nextState, i,
                 averageReturn, totalReward, totalSteps, hist>>

\* } while (!env.done);
TrainCond ==
  /\ pc = "train_cond"
  /\ pc' = IF ~env.done THEN "train_observe" ELSE "train_push"
  /\ iter' = <<>>
  /\ UNCHANGED <<prog, config, call, env, envTest, agent, replayMethod, returnList,
                 episodes, numSteps, episodeReturn, nextState, i,
                 averageReturn, totalReward, totalSteps, hist>>

\* returnList.push_back(episodeReturn);
TrainPush ==
  /\ pc = "train_push"
  /\ returnList' = Append(returnList, episodeReturn)
  /\ pc' = "train_episodes"
  /\ hist' = [hist EXCEPT !.allReturns = Append(@, env.epReward),
                          !.appended = @ + 1]
  /\ UNCHANGED <<prog, config, call, env, envTest, agent, replayMethod, episodes,
                 numSteps, episodeReturn, nextState, i, averageReturn,
                 totalReward, totalSteps, iter>>

\* episodes += 1;
TrainEpisodes ==
  /\ pc = "train_episodes"
  /\ episodes' = episodes + 1
  /\ pc' = "train_erase"
  /\ hist' = [hist EXCEPT !.callEpisodes = @ + 1]
  /\ UNCHANGED <<prog, config, call, env, envTest, agent, replayMethod, returnList,
                 numSteps, episodeReturn, nextState, i, averageReturn,
                 totalReward, totalSteps, iter>>

\* variant: the newest return is erased instead of the oldest
ErasedBack(list) ==
  IF Len(list) > config.consecutiveEpisodes
    THEN SubSeq(list, 1, Len(list) - 1) ELSE list

\* if (returnList.size() > consecutiveEpisodes)
\*   returnList.erase(returnList.begin());
Erased(list) ==
  IF Len(list) > config.consecutiveEpisodes THEN Tail(list) ELSE list

TrainErase ==
  /\ pc = "train_erase"
  /\ returnList' = Erased(returnList)
  /\ pc' = "train_average"
  /\ UNCHANGED <<prog, config, call, env, envTest, agent, replayMethod, episodes,
                 numSteps, episodeReturn, nextState, i, averageReturn,
                 totalReward, totalSteps, iter, hist>>

\* double averageReturn = std::accumulate(...) / returnList.size();
\* (the periodic progress line that follows prints and changes nothing)
TrainAverage ==
  /\ pc = "train_average"
  /\ averageReturn' = [sum |-> Sum(returnList), size |-> Len(returnList)]
  /\ pc' = "train_while"
  /\ UNCHANGED <<prog, config, call, env, envTest, agent, replayMethod, returnList,
                 episodes, numSteps, episodeReturn, nextState, i,
                 totalReward, totalSteps, iter, hist>>

(***************************************************************************)
(* main: evaluation.                                                       *)
(***************************************************************************)
\* agent.Deterministic() = true;
MainDeterministic ==
  /\ pc = "main_det"
  /\ agent' = [agent EXCEPT !.deterministic = TRUE]
  /\ pc' = "main_open"
  /\ UNCHANGED <<prog, config, call, env, envTest, replayMethod, returnList, episodes,
                 numSteps, episodeReturn, nextState, i, averageReturn,
                 totalReward, totalSteps, iter, hist>>

\* gym::Environment envTest(...);  envTest.monitor.start(...);
\* (the second evaluation of the dqn program only restarts the monitor)
MainOpen ==
  /\ pc = "main_open"
  /\ envTest' = IF call = 1 THEN EnvOpen ELSE envTest
  /\ pc' = "eval_reset"
  /\ UNCHANGED <<prog, config, call, env, agent, replayMethod, returnList, episodes,
                 numSteps, episodeReturn, nextState, i, averageReturn,
                 totalReward, totalSteps, iter, hist>>

\* variant: only the first evaluation resets envTest
EvalResetFirstOnly ==
  /\ pc = "eval_reset"
  /\ envTest' = IF call = 1 THEN EnvReset(envTest) ELSE envTest
  /\ pc' = IF call = 1 THEN "eval_render" ELSE "eval_init"
  /\ UNCHANGED <<prog, config, call, env, agent, replayMethod, returnList, episodes,
                 numSteps, episodeReturn, nextState, i, averageReturn,
                 totalReward, totalSteps, iter, hist>>

\* envTest.reset();
EvalReset ==
  /\ pc = "eval_reset"
  /\ envTest' = EnvReset(envTest)
  /\ pc' = IF call = 1 THEN "eval_render" ELSE "eval_init"
  /\ UNCHANGED <<prog, config, call, env, agent, replayMethod, returnList, episodes,
                 numSteps, episodeReturn, nextState, i, averageReturn,
                 totalReward, totalSteps, iter, hist>>

\* envTest.render();
EvalRender ==
  /\ pc = "eval_render"
  /\ pc' = "eval_init"
  /\ UNCHANGED <<prog, config, call, env, envTest, agent, replayMethod, returnList,
                 episodes, numSteps, episodeReturn, nextState, i,
                 averageReturn, totalReward, totalSteps, iter, hist>>

\* totalReward = 0;  totalSteps = 0;
EvalInit ==
  /\ pc = "eval_init"
  /\ totalReward' = 0
  /\ totalSteps' = 0
  /\ pc' = "eval_observe"
  /\ UNCHANGED <<prog, config, call, env, envTest, agent, replayMethod, returnList,
                 episodes, numSteps, episodeReturn, nextState, i,
                 averageReturn, iter, hist>>

\* agent.State().Data() = envTest.observation;
EvalObserve ==
  /\ pc = "eval_observe"
  /\ agent' = [agent EXCEPT !.state = envTest.observation]
  /\ pc' = "eval_select"
  /\ UNCHANGED <<prog, config, call, env, envTest, replayMethod, returnList, episodes,
                 numSteps, episodeReturn, nextState, i, averageReturn,
                 totalReward, totalSteps, iter, hist>>

\* agent.SelectAction();
EvalSelect ==
  /\ pc = "eval_select"
  /\ agent' = SelectAction(agent)
  /\ pc' = "eval_step"
  /\ UNCHANGED <<prog, config, call, env, envTest, replayMethod, returnList, episodes,
                 numSteps, episodeReturn, nextState, i, averageReturn,
                 totalReward, totalSteps, iter, hist>>

\* envTest.step(action);
EvalStep ==
  /\ pc = "eval_step"
  /\ \E r \in Rewards, d \in DoneChoices(envTest) :
       envTest' = EnvStep(envTest, r, d)
  /\ pc' = "eval_accum"
  /\ UNCHANGED <<prog, config, call, env, agent, replayMethod, returnList, episodes,
                 numSteps, episodeReturn, nextState, i, averageReturn,
                 totalReward, totalSteps, iter, hist>>

\* totalReward += envTest.reward;  totalSteps += 1;
EvalAccum ==
  /\ pc = "eval_accum"
  /\ totalReward' = totalReward + envTest.reward
  /\ totalSteps' = totalSteps + 1
  /\ pc' = "eval_check"
  /\ UNCHANGED <<prog, config, call, env, envTest, agent, replayMethod, returnList,
                 episodes, numSteps, episodeReturn, nextState, i,
                 averageReturn, iter, hist>>

\* if (envTest.done) { ...; break; }
EvalBreak == envTest.done

EvalCheck ==
  /\ pc = "eval_check"
  /\ pc' = IF EvalBreak
             THEN IF call < Calls(prog) THEN "main_url" ELSE "main_close"
             ELSE "eval_observe"
  /\ UNCHANGED <<prog, config, call, env, envTest, agent, replayMethod, returnList,
                 episodes, numSteps, episodeReturn, nextState, i,
                 averageReturn, totalReward, totalSteps, iter, hist>>

\* std::cout << envTest.url();  then the second Train call      (dqn)
MainUrl ==
  /\ pc = "main_url"
  /\ call' = call + 1
  /\ pc' = "main_train"
  /\ UNCHANGED <<prog, config, env, envTest, agent, replayMethod, returnList,
                 episodes, numSteps, episodeReturn, nextState, i,
                 averageReturn, totalReward, totalSteps, iter, hist>>

\* variant: main returns without closing envTest
MainExitNoClose ==
  /\ pc = "main_close"
  /\ pc' = "exit"
  /\ UNCHANGED <<prog, config, call, env, envTest, agent, replayMethod, returnList,
                 episodes, numSteps, episodeReturn, nextState, i,
                 averageReturn, totalReward, totalSteps, iter, hist>>

\* envTest.close();  std::cout << envTest.url();  and main returns
MainClose ==
  /\ pc = "main_close"
  /\ envTest' = EnvClose(envTest)
  /\ pc' = "exit"
  /\ UNCHANGED <<prog, config, call, env, agent, replayMethod, returnList, episodes,
                 numSteps, episodeReturn, nextState, i, averageReturn,
                 totalReward, totalSteps, iter, hist>>

Next ==
  \/ MainTrain
  \/ TrainBegin
  \/ TrainWhile
  \/ TrainZero
  \/ TrainReset
  \/ TrainObserve
  \/ TrainSelect
  \/ TrainStep
  \/ TrainNext
  \/ TrainStore
  \/ TrainAccum
  \/ TrainCount
  \/ TrainSkip
  \/ TrainAgent
  \/ TrainFor
  \/ TrainUpdate
  \/ TrainCond
  \/ TrainPush
  \/ TrainEpisodes
  \/ TrainErase
  \/ TrainAverage
  \/ MainDeterministic
  \/ MainOpen
  \/ EvalReset
  \/ EvalRender
  \/ EvalInit
  \/ EvalObserve
  \/ EvalSelect
  \/ EvalStep
  \/ EvalAccum
  \/ EvalCheck
  \/ MainUrl
  \/ MainClose

Spec == Init /\ [][Next]_vars

\* One small configuration of each program, each statement eventually
\* executed: every call into the agent and the environment returns, and
\* (DoneChoices) every episode of the environment ends.
InitSmall ==
  /\ Init
  /\ config = SmallConfig(prog, SmallExplorationSteps, SmallConsecutiveEpisodes)

FairSpec == InitSmall /\ [][Next]_vars /\ WF_vars(Next)

(***************************************************************************)
(* Properties.                                                             *)
(***************************************************************************)
\* the statements of the do-while body of Train
DoBody ==
  {"train_observe", "train_select", "train_step", "train_next",
   "train_store", "train_accum", "train_count", "train_skip", "train_agent",
   "train_for", "train_update", "train_cond"}

\* the statements of the do-while body that follow Store
AfterStore ==
  {"train_accum", "train_count", "train_skip", "train_agent", "train_for",
   "train_update", "train_cond"}

Updates(k) == [j \in 1..k |-> "update"]

NumUpdates(log) == Cardinality({j \in 1..Len(log) : log[j] = "update"})

IsPrefix(s, t) == Len(s) <= Len(t) /\ s = SubSeq(t, 1, Len(s))

Min(a, b) == IF a < b THEN a ELSE b

LastN(s, n) == SubSeq(s, Len(s) - n + 1, Len(s))

\* the events an iteration has logged when control is at each statement
LoggedAt(p) ==
  CASE p = "train_observe" -> 0
    [] p = "train_select" -> 1
    [] p = "train_step" -> 2
    [] p \in {"train_next", "train_store"} -> 3
    [] p = "train_accum" -> 4
    [] p \in {"train_count", "train_skip", "train_agent"} -> 5
    [] p \in {"train_for", "train_update"} -> 5 + i
    [] OTHER -> Len(iter)

\* C1 as the specification words it: in every iteration of the step loop of
\* Train the events are, in this order, observe, select, step, store, the
\* learning updates (if any), and last the accumulation of the reward; and
\* the environment was reset exactly once in the episode.
C1_UpdateBeforeAccumulate ==
  pc = "train_cond" =>
    /\ iter = <<"observe", "select", "step", "store">>
                \o Updates(Len(iter) - 5) \o <<"accumulate">>
    /\ hist.epResets = 1

\* C1, amended: in every iteration of the step loop of Train the events are,
\* in this order, observe, select, step, store, accumulate the reward, and
\* last the learning updates (if any); at every statement of the loop the
\* events logged so far are exactly those that precede it; and the
\* environment was reset exactly once since the episode began.
C1_EventOrder ==
  pc \in DoBody =>
    /\ hist.epResets = 1
    /\ pc # "train_observe" =>
         /\ Len(iter) = LoggedAt(pc)
         /\ IsPrefix(iter,
                     <<"observe", "select", "step", "store", "accumulate">>
                       \o Updates(Len(iter) - 5))
    /\ pc = "train_cond" => Len(iter) >= 5

C1_Witness ==
  /\ pc = "train_cond"
  /\ NumUpdates(iter) >= 1
  /\ hist.epStores >= 2
  /\ Len(hist.allReturns) >= 1

\* C2: whenever no end-of-episode bookkeeping is under way, returnList is
\* the returns of the last min(k, consecutiveEpisodes) episodes in order,
\* k = episodes being the number of episodes completed by all Train calls;
\* its size is within 1..consecutiveEpisodes when the average is computed,
\* so the divisor of the average is never zero.
C2_SlidingWindow ==
  /\ pc \notin {"train_episodes", "train_erase"} =>
       /\ episodes = Len(hist.allReturns)
       /\ returnList =
            LastN(hist.allReturns, Min(episodes, config.consecutiveEpisodes))
  /\ pc = "train_average" =>
       Len(returnList) \in 1..config.consecutiveEpisodes
  /\ (pc = "train_while" /\ episodes > 0) =>
       /\ averageReturn.size \in 1..config.consecutiveEpisodes
       /\ averageReturn.sum = Sum(returnList)

C2_Witness ==
  /\ pc = "train_while"
  /\ call = 2
  /\ hist.callEpisodes >= 1
  /\ episodes > config.consecutiveEpisodes
  /\ \E j \in 1..(Len(returnList) - 1) : returnList[j] # returnList[j + 1]

\* C3: the value appended to returnList is the sum of the rewards of the
\* environment steps taken since the episode's reset; the accumulator holds
\* that sum throughout the episode; one value is appended and episodes
\* grows by one per episode (per reset of the training environment).
C3_EpisodeReturn ==
  /\ pc = "train_episodes" =>
       /\ Last(returnList) = env.epReward
       /\ env.epSteps >= 1
       /\ hist.appended = env.resets
       /\ episodes = hist.appended - 1
  /\ pc \in (DoBody \ {"train_next", "train_store", "train_accum"})
       \cup {"train_push"} =>
       /\ episodeReturn = env.epReward
       /\ hist.appended = env.resets - 1
       /\ episodes = hist.appended
  /\ pc \in {"train_next", "train_store", "train_accum"} =>
       episodeReturn + env.reward = env.epReward
  /\ pc \in {"train_while", "train_zero", "train_reset", "train_erase",
             "train_average", "main_det", "exit"} =>
       /\ hist.appended = env.resets
       /\ episodes = hist.appended

C3_Witness ==
  /\ pc = "train_episodes"
  /\ Len(hist.allReturns) >= 2
  /\ hist.allReturns[Len(hist.allReturns) - 1] > 0
  /\ env.epSteps >= 2
  /\ Last(returnList) > 0

\* C4: the agent is deterministic at every action selection of an
\* evaluation loop and not deterministic at every action selection of Train.
C4_Deterministic ==
  /\ pc = "eval_select" => agent.deterministic
  /\ pc = "train_select" => ~agent.deterministic

C4_Witness ==
  /\ pc = "eval_select"
  /\ call = 2
  /\ hist.callEpisodes >= 1

\* C5: Train returns only with TotalSteps >= numSteps; TotalSteps is the
\* number of environment steps taken in Train; an episode ends only at a
\* step that reported done, whatever TotalSteps is; and a Train call entered
\* with TotalSteps >= numSteps resets, steps, stores and updates nothing and
\* leaves returnList and episodes as they were.
C5_AtLeastNumSteps ==
  /\ pc = "main_det" => agent.totalSteps >= numSteps
  /\ agent.totalSteps =
       IF pc \in {"train_next", "train_store", "train_accum", "train_count"}
         THEN hist.trainSteps - 1 ELSE hist.trainSteps
  /\ pc = "train_push" => env.done
  /\ (pc = "main_det" /\ hist.callEpisodes > 0) => env.done
  /\ (pc = "main_det" /\ hist.entrySteps >= numSteps) =>
       /\ hist.callActs = 0
       /\ hist.callEpisodes = 0
       /\ returnList = hist.entryReturns
       /\ episodes = hist.entryEpisodes
       /\ agent.totalSteps = hist.entrySteps

C5_Witness ==
  /\ pc = "main_det"
  /\ call = 2
  /\ hist.entrySteps >= numSteps
  /\ agent.totalSteps > TrainBound(1)
  /\ episodes > 0

\* C6: the step bound of the mountain-car program's Train call is the
\* 100000 steps its comment announces, and Train returns only once
\* TotalSteps has reached them.
C6_AnnouncedSteps ==
  (prog = "ddpg" /\ config.real) =>
    /\ pc \in DoBody => numSteps = DdpgAnnouncedSteps
    /\ pc = "main_det" => agent.totalSteps >= DdpgAnnouncedSteps

\* C7: when an iteration of the step loop ends, it has made no learning
\* update if TotalSteps (already incremented) is below ExplorationSteps, and
\* otherwise exactly one (dqn) or exactly UpdateInterval (ddpg); every
\* update follows the store of the iteration, and none precedes its step.
C7_Updates ==
  /\ pc = "train_cond" =>
       NumUpdates(iter) =
         IF agent.totalSteps < config.explorationSteps THEN 0
         ELSE IF prog = "dqn" THEN 1 ELSE config.updateInterval
  /\ \A j \in 1..Len(iter) :
       iter[j] = "update" => j > 4 /\ iter[3] = "step" /\ iter[4] = "store"
  /\ pc \in {"train_observe", "train_select", "train_step"} =>
       NumUpdates(iter) = 0

C7_Witness ==
  /\ pc = "train_cond"
  /\ prog = "ddpg"
  /\ env.done
  /\ agent.totalSteps = config.explorationSteps
  /\ NumUpdates(iter) >= 2

\* C8: neither connection is stepped before its first reset, stepped after
\* a step that reported done without a reset in between, or reset or
\* stepped after close.
C8_Protocol == env.misuse = {} /\ envTest.misuse = {}

C8_Witness ==
  /\ pc = "exit"
  /\ prog = "dqn"
  /\ envTest.conn = "closed"
  /\ envTest.resets = 2
  /\ hist.callEpisodes >= 1

\* C9: the transition Store received last holds the observation before the
\* step, the observation after it, its reward, its done flag and the
\* discount 0.99; within an episode it starts where the transition before
\* it ended, the first starts at the observation of the reset, and only the
\* last transition of an episode has the done flag.
C9_Transitions ==
  /\ pc \in AfterStore =>
       /\ Last(replayMethod).state = env.before
       /\ Last(replayMethod).nextState = env.observation
       /\ Last(replayMethod).reward = env.reward
       /\ Last(replayMethod).done = env.done
       /\ Last(replayMethod).discount = Discount
       /\ hist.epStores = env.epSteps
       /\ hist.epStores = 1 => Last(replayMethod).state = env.resetObs
       /\ hist.epStores >= 2 =>
            /\ Last(replayMethod).state = replayMethod[Len(replayMethod) - 1].nextState
            /\ ~replayMethod[Len(replayMethod) - 1].done
  /\ pc = "train_push" => Last(replayMethod).done

C9_Witness ==
  /\ pc = "train_cond"
  /\ hist.epStores >= 2
  /\ env.done
  /\ Len(hist.allReturns) >= 1

\* C10: with every statement eventually executed and every episode of the
\* environment ending, main reaches its exit with envTest closed; each
\* evaluation loop is left at the first step that reports done; and every
\* episode of a Train call adds at least one step to TotalSteps.
C10_Terminates ==
  /\ <>(pc = "exit" /\ envTest.conn = "closed")
  /\ [](pc \in {"main_url", "main_close"} =>
          envTest.done /\ totalSteps = envTest.epSteps)
  /\ [](pc = "eval_observe" /\ totalSteps > 0 => ~envTest.done)
  /\ [](pc = "train_while" =>
          agent.totalSteps >= hist.entrySteps + hist.callEpisodes)

C10_Witness ==
  /\ pc = "exit"
  /\ call = Calls(prog)
  /\ totalSteps >= 2
  /\ agent.totalSteps >= numSteps
=============================================================================
